---- MODULE Spec2Model ----
(***************************************************************************)
(* Model of src/game/api.js: the leaderboard API client.                   *)
(*                                                                         *)
(*   const API_BASE = import.meta.env.VITE_API_BASE || "http://...:8000"   *)
(*   async function fetchLeaderboard(limit = 10)                           *)
(*   async function submitScore({name, score, level, character}, limit=10) *)
(*                                                                         *)
(* Every invocation is a small process: it issues its request, suspends at *)
(* `await fetch(...)`, is resumed when the transport settles the request,  *)
(* and then either throws, or reads the body (res.json() / res.text()).    *)
(* Text (bodies, error messages) is a sequence of one-character strings;   *)
(* URLs are strings.  JavaScript values and parsed JSON values are tagged  *)
(* records of one shape, [t, s, n, a].                                     *)
(***************************************************************************)
EXTENDS Integers, Sequences, FiniteSets, TLC

(***************************************************************************)
(* Bounds of the model.                                                    *)
(***************************************************************************)
\* Invocations in a run of Spec (all inputs, configuration changes).
MaxCalls == 1
\* Concurrent invocations in a run of SpecConc and SpecLive.
MaxConcurrent == 2

(***************************************************************************)
(* Program constants.                                                      *)
(***************************************************************************)
\* api.js:1  the local-development default of API_BASE
DEFAULT_API_BASE == "http://localhost:8000"
\* api.js:3 and api.js:9  `limit = 10`
DEFAULT_LIMIT == 10
\* api.js:5
MSG_FETCH_FAILED ==
  << "F","a","i","l","e","d"," ","t","o"," ","f","e","t","c","h"," ",
     "l","e","a","d","e","r","b","o","a","r","d" >>
\* api.js:17
MSG_SUBMIT_FAILED ==
  << "F","a","i","l","e","d"," ","t","o"," ","s","u","b","m","i","t"," ",
     "s","c","o","r","e" >>

(***************************************************************************)
(* JavaScript values: strings, integers and undefined.                     *)
(***************************************************************************)
JsStr(chars) == [t |-> "str", s |-> chars, n |-> 0, a |-> <<>>]
JsNum(k) == [t |-> "num", s |-> <<>>, n |-> k, a |-> <<>>]
Undefined == [t |-> "undef", s |-> <<>>, n |-> 0, a |-> <<>>]
\* A value that holds an array: its items; an object: its members, each a
\* value of tag "mem" whose s is the key and whose a is <<value>>.
JsArr(items) == [t |-> "arr", s |-> <<>>, n |-> 0, a |-> items]
JsObj(members) == [t |-> "obj", s |-> <<>>, n |-> 0, a |-> members]
JsMem(key, val) == [t |-> "mem", s |-> key, n |-> 0, a |-> <<val>>]

\* The property names the module uses, as text.
K_name == << "n","a","m","e" >>
K_score == << "s","c","o","r","e" >>
K_level == << "l","e","v","e","l" >>
K_character == << "c","h","a","r","a","c","t","e","r" >>

\* obj.key of a JavaScript object: undefined when the object has no such
\* property (what the destructuring pattern of api.js:9 reads).
GetProp(obj, key) ==
  IF \E j \in 1..Len(obj.a) : obj.a[j].s = key
  THEN LET j == CHOOSE j \in 1..Len(obj.a) : obj.a[j].s = key
       IN obj.a[j].a[1]
  ELSE Undefined

(***************************************************************************)
(* Number -> text: what a template literal `${limit}` and JSON.stringify   *)
(* write for an integer.                                                   *)
(***************************************************************************)
DigitChar(d) == << "0","1","2","3","4","5","6","7","8","9" >>[d + 1]

RECURSIVE NatToText(_)
NatToText(k) ==
  IF k < 10 THEN << DigitChar(k) >>
  ELSE Append(NatToText(k \div 10), DigitChar(k % 10))

NumberToText(k) == IF k < 0 THEN << "-" >> \o NatToText(0 - k) ELSE NatToText(k)

\* The string made of the characters of a text.
RECURSIVE TextToString(_)
TextToString(chars) ==
  IF chars = << >> THEN "" ELSE Head(chars) \o TextToString(Tail(chars))

(***************************************************************************)
(* JSON.stringify (api.js:13) of strings, integers and plain objects.      *)
(***************************************************************************)
QUOTE == "\""
BACKSLASH == "\\"

\* The characters of a string with quotes and backslashes escaped.
RECURSIVE EscapeText(_)
EscapeText(chars) ==
  IF chars = << >> THEN << >>
  ELSE LET c == Head(chars)
       IN (IF c = QUOTE \/ c = BACKSLASH THEN << BACKSLASH, c >> ELSE << c >>)
          \o EscapeText(Tail(chars))

QuoteText(chars) == << QUOTE >> \o EscapeText(chars) \o << QUOTE >>

\* A string or a number as JSON text.
StringifyScalar(v) == IF v.t = "str" THEN QuoteText(v.s) ELSE NumberToText(v.n)

\* The members of an object from the j-th on, comma separated; a member
\* whose value is undefined is left out, as JSON.stringify leaves it out.
RECURSIVE StringifyMembers(_, _, _)
StringifyMembers(members, j, first) ==
  IF j > Len(members) THEN << >>
  ELSE LET m == members[j]
       IN IF m.a[1].t = "undef" THEN StringifyMembers(members, j + 1, first)
          ELSE (IF first THEN << >> ELSE << "," >>)
               \o QuoteText(m.s) \o << ":" >> \o StringifyScalar(m.a[1])
               \o StringifyMembers(members, j + 1, FALSE)

JSONstringify(obj) == << "{" >> \o StringifyMembers(obj.a, 1, TRUE) \o << "}" >>

(***************************************************************************)
(* JSON.parse, which res.json() applies to the body text (api.js:6, 19):   *)
(* objects, arrays, strings and integers, with blanks between tokens.      *)
(* A parse step yields [ok, v, p]: whether it succeeded, the value, and    *)
(* the position after it.                                                  *)
(***************************************************************************)
ParseFail == [ok |-> FALSE, v |-> Undefined, p |-> 0]
ParseOk(val, pos) == [ok |-> TRUE, v |-> val, p |-> pos]

Digits == { "0","1","2","3","4","5","6","7","8","9" }
DigitVal(c) == CHOOSE d \in 0..9 : DigitChar(d) = c

RECURSIVE SkipBlanks(_, _)
SkipBlanks(txt, p) ==
  IF p <= Len(txt) /\ txt[p] = " " THEN SkipBlanks(txt, p + 1) ELSE p

\* The character at p, or "" past the end.
CharAt(txt, p) == IF p <= Len(txt) THEN txt[p] ELSE ""

RECURSIVE ReadDigits(_, _, _)
ReadDigits(txt, p, acc) ==
  IF CharAt(txt, p) \in Digits
  THEN ReadDigits(txt, p + 1, 10 * acc + DigitVal(txt[p]))
  ELSE ParseOk(JsNum(acc), p)

\* An integer: an optional minus, then 0 or a digit string without a
\* leading 0.
ParseNumber(txt, p) ==
  LET neg == CharAt(txt, p) = "-"
      q == IF neg THEN p + 1 ELSE p
      r == IF CharAt(txt, q) = "0" THEN ParseOk(JsNum(0), q + 1)
           ELSE IF CharAt(txt, q) \in Digits THEN ReadDigits(txt, q, 0)
           ELSE ParseFail
  IN IF r.ok /\ neg THEN ParseOk(JsNum(0 - r.v.n), r.p) ELSE r

\* The characters of a string literal whose opening quote is before p.
RECURSIVE ReadChars(_, _, _)
ReadChars(txt, p, acc) ==
  LET c == CharAt(txt, p)
  IN IF c = "" THEN ParseFail
     ELSE IF c = QUOTE THEN ParseOk(JsStr(acc), p + 1)
     ELSE IF c = BACKSLASH
          THEN IF CharAt(txt, p + 1) \in { QUOTE, BACKSLASH }
               THEN ReadChars(txt, p + 2, Append(acc, txt[p + 1]))
               ELSE ParseFail
     ELSE ReadChars(txt, p + 1, Append(acc, c))

RECURSIVE ParseValue(_, _)
RECURSIVE ParseItems(_, _, _)
RECURSIVE ParseMembers(_, _, _)

\* After "[" and the items read so far: the next item, then "," or "]".
ParseItems(txt, p, acc) ==
  LET r == ParseValue(txt, p)
      q == SkipBlanks(txt, r.p)
  IN IF ~r.ok THEN ParseFail
     ELSE IF CharAt(txt, q) = "," THEN ParseItems(txt, q + 1, Append(acc, r.v))
     ELSE IF CharAt(txt, q) = "]" THEN ParseOk(JsArr(Append(acc, r.v)), q + 1)
     ELSE ParseFail

\* After "{" and the members read so far: "key" : value, then "," or "}".
ParseMembers(txt, p, acc) ==
  LET k == SkipBlanks(txt, p)
      key == IF CharAt(txt, k) = QUOTE THEN ReadChars(txt, k + 1, << >>)
             ELSE ParseFail
      c == SkipBlanks(txt, key.p)
      r == IF key.ok /\ CharAt(txt, c) = ":" THEN ParseValue(txt, c + 1)
           ELSE ParseFail
      q == SkipBlanks(txt, r.p)
  IN IF ~r.ok THEN ParseFail
     ELSE IF CharAt(txt, q) = ","
          THEN ParseMembers(txt, q + 1, Append(acc, JsMem(key.v.s, r.v)))
     ELSE IF CharAt(txt, q) = "}"
          THEN ParseOk(JsObj(Append(acc, JsMem(key.v.s, r.v))), q + 1)
     ELSE ParseFail

ParseValue(txt, p) ==
  LET q == SkipBlanks(txt, p)
      c == CharAt(txt, q)
  IN IF c = "[" THEN
       (IF CharAt(txt, SkipBlanks(txt, q + 1)) = "]"
        THEN ParseOk(JsArr(<< >>), SkipBlanks(txt, q + 1) + 1)
        ELSE ParseItems(txt, q + 1, << >>))
     ELSE IF c = "{" THEN
       (IF CharAt(txt, SkipBlanks(txt, q + 1)) = "}"
        THEN ParseOk(JsObj(<< >>), SkipBlanks(txt, q + 1) + 1)
        ELSE ParseMembers(txt, q + 1, << >>))
     ELSE IF c = QUOTE THEN ReadChars(txt, q + 1, << >>)
     ELSE IF c = "-" \/ c \in Digits THEN ParseNumber(txt, q)
     ELSE ParseFail

\* The whole text is one JSON value, or the parse fails.
JSONparse(txt) ==
  LET r == ParseValue(txt, 1)
  IN IF r.ok /\ SkipBlanks(txt, r.p) = Len(txt) + 1 THEN r ELSE ParseFail

(***************************************************************************)
(* The platform: errors, responses, and what the transport may deliver.    *)
(***************************************************************************)
JsError(name, message) == [name |-> name, message |-> message]
NoError == JsError("", << >>)

\* new Error(message), api.js:5 and api.js:17
NewError(message) == JsError("Error", message)

\* What fetch() rejects with when the transport fails (api.js:4, 10).
ERR_NETWORK ==
  JsError("TypeError",
          << "F","a","i","l","e","d"," ","t","o"," ","f","e","t","c","h" >>)
\* What res.json() and res.text() reject with when the body cannot be read.
ERR_BODY_STREAM ==
  JsError("TypeError", << "b","o","d","y"," ","e","r","r","o","r" >>)
\* What res.json() rejects with when the body text is not JSON.
ERR_SYNTAX ==
  JsError("SyntaxError", << "b","a","d"," ","J","S","O","N" >>)

\* res.ok (api.js:5, 15): the status is in the range 200-299.
ResponseOk(status) == 200 <= status /\ status <= 299

\* A promise: pending, fulfilled with a value, or rejected with an error.
Pending == [state |-> "pending", value |-> Undefined, error |-> NoError]
Fulfilled(val) == [state |-> "fulfilled", value |-> val, error |-> NoError]
Rejected(err) == [state |-> "rejected", value |-> Undefined, error |-> err]

\* The transport's side of one request: not issued, in flight, answered
\* with a status, or failed with an error.
NetNone == [state |-> "none", status |-> 0, error |-> NoError]
NetPending == [state |-> "pending", status |-> 0, error |-> NoError]
NetResponse(status) == [state |-> "response", status |-> status, error |-> NoError]
NetFailure(err) == [state |-> "failure", status |-> 0, error |-> err]

\* The Response object an invocation holds in `res`.
NoResponse == [status |-> 0, bodyUsed |-> FALSE]
Response(status) == [status |-> status, bodyUsed |-> FALSE]

\* What reading a body delivers: its text, or a failure of the stream.
BodyText(chars) == [ok |-> TRUE, text |-> chars]
BodyFailure == [ok |-> FALSE, text |-> << >>]

(***************************************************************************)
(* Input sets of the model.                                                *)
(***************************************************************************)
UNSET == << >>
CONFIGURED_BASE == "https://api.riskzone.test"
\* import.meta.env.VITE_API_BASE: unset, set to the empty string, set to a URL.
EnvValues == { UNSET, << "" >>, << CONFIGURED_BASE >> }

\* A limit argument: << >> when omitted, <<k>> when given.
FetchLimitArgs == { << >>, << 100 >>, << -25 >> }
SubmitLimitArgs == { << >>, << 3 >> }

E_PLAIN ==
  JsObj(<< JsMem(K_name, JsStr(<< "A","n","n" >>)),
           JsMem(K_score, JsNum(120)),
           JsMem(K_level, JsNum(3)),
           JsMem(K_character, JsStr(<< "k" >>)) >>)
\* An entry with two more properties, a string level, and a name that holds
\* a quote.
E_EXTRA ==
  JsObj(<< JsMem(<< "i","d" >>, JsNum(7)),
           JsMem(K_character, JsStr(<< "r","e","x" >>)),
           JsMem(K_level, JsStr(<< "x","2" >>)),
           JsMem(K_name, JsStr(<< "a",QUOTE,"b" >>)),
           JsMem(K_score, JsNum(0)),
           JsMem(<< "h","p" >>, JsNum(9)) >>)
Entries == { E_PLAIN, E_EXTRA }

Statuses == { 200, 404, 500 }

\* {"top":[2,1]}
B_JSON == << "{",QUOTE,"t","o","p",QUOTE,":","[","2",",","1","]","}" >>
B_MESSAGE == << "i","n","v","a","l","i","d"," ","s","c","o","r","e" >>
B_EMPTY == << >>
BodyReads == { BodyText(B_JSON), BodyText(B_MESSAGE), BodyText(B_EMPTY), BodyFailure }

(***************************************************************************)
(* State.                                                                  *)
(***************************************************************************)
VARIABLES
  env,       \* import.meta.env.VITE_API_BASE: UNSET or <<string>>
  loaded,    \* whether the module has been evaluated
  API_BASE,  \* the module constant of api.js:1 ("" before the load)
  pc,        \* per invocation: "idle", "fetching", "json", "text", "message", "done"
  op,        \* per invocation: "none", "fetchLeaderboard", "submitScore"
  args,      \* per invocation: its arguments [entry, limit]
  sent,      \* per invocation: the requests it handed to fetch(), in order
  net,       \* per invocation: the transport's side of its request
  res,       \* per invocation: the local `res`
  bodyRead,  \* per invocation: << >>, or <<what its body read delivered>>
  outcome    \* per invocation: the promise the invocation returned

vars == << env, loaded, API_BASE, pc, op, args, sent, net, res, bodyRead, outcome >>

Calls == DOMAIN pc

NoArgs == [entry |-> Undefined, limit |-> << >>]
NoRead == << >>

(***************************************************************************)
(* Module load, api.js:1.                                                  *)
(***************************************************************************)
\* a || b on strings: b when a is undefined or empty.
ResolveBase(e) == IF e = UNSET \/ e[1] = "" THEN DEFAULT_API_BASE ELSE e[1]

\* The state before the module is evaluated, with n invocations to come.
InitWith(envs, n) ==
  /\ env \in envs
  /\ loaded = FALSE
  /\ API_BASE = ""
  /\ pc = [i \in 1..n |-> "idle"]
  /\ op = [i \in 1..n |-> "none"]
  /\ args = [i \in 1..n |-> NoArgs]
  /\ sent = [i \in 1..n |-> << >>]
  /\ net = [i \in 1..n |-> NetNone]
  /\ res = [i \in 1..n |-> NoResponse]
  /\ bodyRead = [i \in 1..n |-> NoRead]
  /\ outcome = [i \in 1..n |-> Pending]

\* The module is evaluated: api.js:1 runs, once.
LoadModule ==
  /\ ~loaded
  /\ loaded' = TRUE
  /\ API_BASE' = ResolveBase(env)
  /\ UNCHANGED << env, pc, op, args, sent, net, res, bodyRead, outcome >>

\* The configuration source changes.
EnvChange(v) ==
  /\ v # env
  /\ env' = v
  /\ UNCHANGED << loaded, API_BASE, pc, op, args, sent, net, res, bodyRead, outcome >>

(***************************************************************************)
(* fetchLeaderboard, api.js:3-7.                                           *)
(***************************************************************************)
\* Variant: a limit below 1 is raised to 1.
LimitOf_Clamped(limitArg) ==
  IF limitArg = << >> THEN DEFAULT_LIMIT
  ELSE IF limitArg[1] < 1 THEN 1 ELSE limitArg[1]

\* limit = 10: the default applies when the argument is omitted.
LimitOf(limitArg) == IF limitArg = << >> THEN DEFAULT_LIMIT ELSE limitArg[1]

\* Variant: the base is read from the configuration at each call.
LeaderboardUrl_ReadsEnv(limit) ==
  ResolveBase(env) \o "/leaderboard?limit=" \o TextToString(NumberToText(limit))

\* `${API_BASE}/leaderboard?limit=${limit}`, api.js:4
LeaderboardUrl(limit) ==
  API_BASE \o "/leaderboard?limit=" \o TextToString(NumberToText(limit))

\* fetch(url): a GET without headers or body.
LeaderboardRequest(limit) ==
  [method |-> "GET", url |-> LeaderboardUrl(limit), headers |-> << >>,
   body |-> << >>]

\* fetch(request) by invocation i: the request goes out, the promise is
\* pending.
Issue(i, request) ==
  /\ sent' = [sent EXCEPT ![i] = Append(@, request)]
  /\ net' = [net EXCEPT ![i] = NetPending]

\* The call, up to the await of api.js:4.
CallFetchLeaderboard(i, limitArg) ==
  /\ loaded
  /\ pc[i] = "idle"
  /\ op' = [op EXCEPT ![i] = "fetchLeaderboard"]
  /\ args' = [args EXCEPT ![i] = [entry |-> Undefined, limit |-> limitArg]]
  /\ Issue(i, LeaderboardRequest(LimitOf(limitArg)))
  /\ pc' = [pc EXCEPT ![i] = "fetching"]
  /\ UNCHANGED << env, loaded, API_BASE, res, bodyRead, outcome >>

\* The invocation ends: its promise settles.
Settle(i, promise) ==
  /\ outcome' = [outcome EXCEPT ![i] = promise]
  /\ pc' = [pc EXCEPT ![i] = "done"]

\* return res.json(): the body is being read, the promise stays pending.
ReturnJson(i, status) ==
  /\ res' = [res EXCEPT ![i] = [status |-> status, bodyUsed |-> TRUE]]
  /\ pc' = [pc EXCEPT ![i] = "json"]
  /\ UNCHANGED outcome

\* const msg = await res.text(): the body is being read as text.
AwaitText(i, status) ==
  /\ res' = [res EXCEPT ![i] = [status |-> status, bodyUsed |-> TRUE]]
  /\ pc' = [pc EXCEPT ![i] = "text"]
  /\ UNCHANGED outcome

\* Variant: the invocation gives up on a request that is still unanswered.
ResumeFetchLeaderboard_Timeout(i) ==
  /\ pc[i] = "fetching"
  /\ op[i] = "fetchLeaderboard"
  /\ IF net[i].state \in { "pending", "failure" }
     THEN Settle(i, Rejected(ERR_NETWORK)) /\ UNCHANGED res
     ELSE IF ~ResponseOk(net[i].status)
     THEN /\ Settle(i, Rejected(NewError(MSG_FETCH_FAILED)))
          /\ res' = [res EXCEPT ![i] = Response(net[i].status)]
     ELSE ReturnJson(i, net[i].status)
  /\ UNCHANGED << env, loaded, API_BASE, op, args, sent, net, bodyRead >>

\* Variant: on a non-success status the body is read as text for the error
\* message, as submitScore does.
ResumeFetchLeaderboard_ReadsBody(i) ==
  /\ pc[i] = "fetching"
  /\ op[i] = "fetchLeaderboard"
  /\ net[i].state \in { "response", "failure" }
  /\ IF net[i].state = "failure"
     THEN Settle(i, Rejected(net[i].error)) /\ UNCHANGED res
     ELSE IF ~ResponseOk(net[i].status)
     THEN AwaitText(i, net[i].status)
     ELSE ReturnJson(i, net[i].status)
  /\ UNCHANGED << env, loaded, API_BASE, op, args, sent, net, bodyRead >>

\* After the await of api.js:4, once the transport has settled the request:
\* api.js:4-6.
ResumeFetchLeaderboard(i) ==
  /\ pc[i] = "fetching"
  /\ op[i] = "fetchLeaderboard"
  /\ net[i].state \in { "response", "failure" }
  /\ IF net[i].state = "failure"
     THEN Settle(i, Rejected(net[i].error)) /\ UNCHANGED res
     ELSE IF ~ResponseOk(net[i].status)
     THEN /\ Settle(i, Rejected(NewError(MSG_FETCH_FAILED)))
          /\ res' = [res EXCEPT ![i] = Response(net[i].status)]
     ELSE ReturnJson(i, net[i].status)
  /\ UNCHANGED << env, loaded, API_BASE, op, args, sent, net, bodyRead >>

(***************************************************************************)
(* submitScore, api.js:9-20.                                               *)
(***************************************************************************)
\* `${API_BASE}/score?limit=${limit}`, api.js:10
ScoreUrl(limit) ==
  API_BASE \o "/score?limit=" \o TextToString(NumberToText(limit))

\* Variant: the entry is sent as it was given.
ScoreBody_WholeEntry(entry) == entry

\* { name, score, level, character } of the destructured entry, api.js:9, 13.
ScoreBody(entry) ==
  JsObj(<< JsMem(K_name, GetProp(entry, K_name)),
           JsMem(K_score, GetProp(entry, K_score)),
           JsMem(K_level, GetProp(entry, K_level)),
           JsMem(K_character, GetProp(entry, K_character)) >>)

\* api.js:10-14
ScoreRequest(entry, limit) ==
  [method |-> "POST", url |-> ScoreUrl(limit),
   headers |-> << << "Content-Type", "application/json" >> >>,
   body |-> JSONstringify(ScoreBody(entry))]

\* The call, up to the await of api.js:10.
CallSubmitScore(i, entry, limitArg) ==
  /\ loaded
  /\ pc[i] = "idle"
  /\ op' = [op EXCEPT ![i] = "submitScore"]
  /\ args' = [args EXCEPT ![i] = [entry |-> entry, limit |-> limitArg]]
  /\ Issue(i, ScoreRequest(entry, LimitOf(limitArg)))
  /\ pc' = [pc EXCEPT ![i] = "fetching"]
  /\ UNCHANGED << env, loaded, API_BASE, res, bodyRead, outcome >>

\* Variant: a failure of the transport is replaced by the module's error.
ResumeSubmitScore_Wraps(i) ==
  /\ pc[i] = "fetching"
  /\ op[i] = "submitScore"
  /\ net[i].state \in { "response", "failure" }
  /\ IF net[i].state = "failure"
     THEN Settle(i, Rejected(NewError(MSG_SUBMIT_FAILED))) /\ UNCHANGED res
     ELSE IF ~ResponseOk(net[i].status)
     THEN AwaitText(i, net[i].status)
     ELSE ReturnJson(i, net[i].status)
  /\ UNCHANGED << env, loaded, API_BASE, op, args, sent, net, bodyRead >>

\* After the await of api.js:10: api.js:15-16 and 19.
ResumeSubmitScore(i) ==
  /\ pc[i] = "fetching"
  /\ op[i] = "submitScore"
  /\ net[i].state \in { "response", "failure" }
  /\ IF net[i].state = "failure"
     THEN Settle(i, Rejected(net[i].error)) /\ UNCHANGED res
     ELSE IF ~ResponseOk(net[i].status)
     THEN AwaitText(i, net[i].status)
     ELSE ReturnJson(i, net[i].status)
  /\ UNCHANGED << env, loaded, API_BASE, op, args, sent, net, bodyRead >>

\* Variant: the body text is dropped.
MessageOrDefault_Generic(text) == MSG_SUBMIT_FAILED

\* msg || "Failed to submit score", api.js:17
MessageOrDefault(text) == IF text = << >> THEN MSG_SUBMIT_FAILED ELSE text

\* Variant: `msg` is one variable shared by the invocations; it holds what
\* the invocation of the highest number that has read a body has read.
ThrowSubmitError_SharedMsg(i) ==
  /\ pc[i] = "message"
  /\ LET j == CHOOSE j \in Calls :
                 /\ bodyRead[j] # NoRead
                 /\ \A k \in Calls : bodyRead[k] # NoRead => k <= j
     IN IF bodyRead[j][1].ok
        THEN Settle(i, Rejected(NewError(MessageOrDefault(bodyRead[j][1].text))))
        ELSE Settle(i, Rejected(ERR_BODY_STREAM))
  /\ UNCHANGED << env, loaded, API_BASE, op, args, sent, net, res, bodyRead >>

\* After the await of api.js:16, once the body read has settled: a failed
\* read is thrown as it is, else api.js:17 throws.
ThrowSubmitError(i) ==
  /\ pc[i] = "message"
  /\ IF bodyRead[i][1].ok
     THEN Settle(i, Rejected(NewError(MessageOrDefault(bodyRead[i][1].text))))
     ELSE Settle(i, Rejected(ERR_BODY_STREAM))
  /\ UNCHANGED << env, loaded, API_BASE, op, args, sent, net, res, bodyRead >>

(***************************************************************************)
(* The transport and the body reads.                                       *)
(***************************************************************************)
\* The transport answers invocation i's request with a status.
TransportRespond(i, status) ==
  /\ net[i].state = "pending"
  /\ net' = [net EXCEPT ![i] = NetResponse(status)]
  /\ UNCHANGED << env, loaded, API_BASE, pc, op, args, sent, res, bodyRead, outcome >>

\* The transport fails invocation i's request.
TransportFail(i) ==
  /\ net[i].state = "pending"
  /\ net' = [net EXCEPT ![i] = NetFailure(ERR_NETWORK)]
  /\ UNCHANGED << env, loaded, API_BASE, pc, op, args, sent, res, bodyRead, outcome >>

\* Variant: the body is returned as text, unparsed.
JsonOf_Text(read) ==
  IF ~read.ok THEN Rejected(ERR_BODY_STREAM) ELSE Fulfilled(JsStr(read.text))

\* Variant: a body that cannot be read or parsed yields undefined.
JsonOf_Swallow(read) ==
  IF read.ok /\ JSONparse(read.text).ok THEN Fulfilled(JSONparse(read.text).v)
  ELSE Fulfilled(Undefined)

\* What res.json() settles with for a delivered body.
JsonOf(read) ==
  IF ~read.ok THEN Rejected(ERR_BODY_STREAM)
  ELSE IF JSONparse(read.text).ok THEN Fulfilled(JSONparse(read.text).v)
  ELSE Rejected(ERR_SYNTAX)

\* The read behind res.json() settles; the returned promise follows it
\* (api.js:6, 19).
JsonSettles(i, read) ==
  /\ pc[i] = "json"
  /\ bodyRead' = [bodyRead EXCEPT ![i] = << read >>]
  /\ Settle(i, JsonOf(read))
  /\ UNCHANGED << env, loaded, API_BASE, op, args, sent, net, res >>

\* The read behind res.text() settles (api.js:16).
TextSettles(i, read) ==
  /\ pc[i] = "text"
  /\ bodyRead' = [bodyRead EXCEPT ![i] = << read >>]
  /\ pc' = [pc EXCEPT ![i] = "message"]
  /\ UNCHANGED << env, loaded, API_BASE, op, args, sent, net, res, outcome >>

(***************************************************************************)
(* Specifications.                                                         *)
(***************************************************************************)
Init == InitWith(EnvValues, MaxCalls)

Next ==
  \/ LoadModule
  \/ \E v \in EnvValues : EnvChange(v)
  \/ \E i \in Calls, l \in FetchLimitArgs : CallFetchLeaderboard(i, l)
  \/ \E i \in Calls, e \in Entries, l \in SubmitLimitArgs : CallSubmitScore(i, e, l)
  \/ \E i \in Calls, s \in Statuses : TransportRespond(i, s)
  \/ \E i \in Calls : TransportFail(i)
  \/ \E i \in Calls : ResumeFetchLeaderboard(i)
  \/ \E i \in Calls : ResumeSubmitScore(i)
  \/ \E i \in Calls, b \in BodyReads : JsonSettles(i, b)
  \/ \E i \in Calls, b \in BodyReads : TextSettles(i, b)
  \/ \E i \in Calls : ThrowSubmitError(i)

Spec == Init /\ [][Next]_vars

\* Concurrent invocations, with fewer inputs per invocation.
ConcStatuses == { 200, 500 }

InitConc == InitWith({ << CONFIGURED_BASE >> }, MaxConcurrent)

NextConc ==
  \/ LoadModule
  \/ \E i \in Calls : CallFetchLeaderboard(i, << >>)
  \/ \E i \in Calls : CallSubmitScore(i, E_PLAIN, << 3 >>)
  \/ \E i \in Calls, s \in ConcStatuses : TransportRespond(i, s)
  \/ \E i \in Calls : TransportFail(i)
  \/ \E i \in Calls : ResumeFetchLeaderboard(i)
  \/ \E i \in Calls : ResumeSubmitScore(i)
  \/ \E i \in Calls, b \in BodyReads : JsonSettles(i, b)
  \/ \E i \in Calls, b \in BodyReads : TextSettles(i, b)
  \/ \E i \in Calls : ThrowSubmitError(i)

SpecConc == InitConc /\ [][NextConc]_vars

\* The module is evaluated, the transport settles every request and every
\* body read, and the event loop resumes every invocation whose await has
\* settled.
Fairness ==
  /\ WF_vars(LoadModule)
  /\ \A i \in 1..MaxConcurrent :
       /\ WF_vars((\E s \in ConcStatuses : TransportRespond(i, s)) \/ TransportFail(i))
       /\ WF_vars(\E b \in BodyReads : JsonSettles(i, b))
       /\ WF_vars(\E b \in BodyReads : TextSettles(i, b))
       /\ WF_vars(ResumeFetchLeaderboard(i))
       /\ WF_vars(ResumeSubmitScore(i))
       /\ WF_vars(ThrowSubmitError(i))

SpecLive == InitConc /\ [][NextConc]_vars /\ Fairness

(***************************************************************************)
(* Claims.                                                                 *)
(***************************************************************************)

\* C1: an invocation of submitScore(entry, limit) issues exactly one request
\* over its whole lifetime, whatever its outcome: a POST to
\* {base}/score?limit={limit} (10 when limit is omitted) with the header
\* Content-Type: application/json, whose body is JSON text of an object
\* with exactly the members name, score, level and character, each with
\* the value it has in entry.
C1_SubmitScoreRequest ==
  \A i \in Calls :
    /\ pc[i] = "idle" => sent[i] = << >>
    /\ op[i] = "submitScore" =>
         /\ Len(sent[i]) = 1
         /\ LET r == sent[i][1]
                e == args[i].entry
                lim == IF args[i].limit = << >> THEN 10 ELSE args[i].limit[1]
                parsed == JSONparse(r.body)
            IN /\ r.method = "POST"
               /\ r.url = API_BASE \o "/score?limit=" \o ToString(lim)
               /\ r.headers = << << "Content-Type", "application/json" >> >>
               /\ parsed.ok
               /\ parsed.v.t = "obj"
               /\ Len(parsed.v.a) = 4
               /\ { parsed.v.a[k].s : k \in 1..4 }
                    = { K_name, K_score, K_level, K_character }
               /\ \A k \in 1..4 : \E m \in 1..Len(e.a) :
                    /\ e.a[m].s = parsed.v.a[k].s
                    /\ e.a[m].a = parsed.v.a[k].a

\* A submitScore of the entry with extra properties, limit omitted, has ended.
C1_Witness ==
  \E i \in Calls :
    /\ op[i] = "submitScore"
    /\ pc[i] = "done"
    /\ args[i] = [entry |-> E_EXTRA, limit |-> << >>]
    /\ outcome[i].state = "rejected"

\* C2: an invocation of fetchLeaderboard(limit) issues exactly one request
\* over its whole lifetime, whatever its outcome: a GET (no headers, no
\* body) to {base}/leaderboard?limit={limit}, with limit 10 when the
\* argument is omitted and the argument as it is otherwise, valid or not.
C2_FetchLeaderboardRequest ==
  \A i \in Calls :
    /\ pc[i] = "idle" => sent[i] = << >>
    /\ op[i] = "fetchLeaderboard" =>
         /\ Len(sent[i]) = 1
         /\ LET r == sent[i][1]
                lim == IF args[i].limit = << >> THEN 10 ELSE args[i].limit[1]
            IN /\ r.method = "GET"
               /\ r.url = API_BASE \o "/leaderboard?limit=" \o ToString(lim)
               /\ r.headers = << >>
               /\ r.body = << >>

\* A fetchLeaderboard(-25) has ended.
C2_Witness ==
  \E i \in Calls :
    /\ op[i] = "fetchLeaderboard"
    /\ pc[i] = "done"
    /\ args[i].limit = << -25 >>
    /\ sent[i][1].url = API_BASE \o "/leaderboard?limit=-25"

\* C3 as stated: on a success status (2xx) both operations resolve with the
\* parsed body and never fail.
C3_Original ==
  \A i \in Calls :
    (pc[i] = "done" /\ net[i].state = "response" /\ net[i].status \in 200..299)
      => outcome[i].state = "fulfilled"

\* C3, amended: on a success status (2xx) whose body is read and is JSON
\* text, both operations resolve with the parsed body as it is (for
\* {"top":[2,1]}: the object with the one member top, the array 2, 1, in
\* that order); on a success status an operation fails only when the body
\* cannot be read or is not JSON text.
C3_SuccessResolvesParsedBody ==
  \A i \in Calls :
    (pc[i] = "done" /\ net[i].state = "response" /\ net[i].status \in 200..299)
      => /\ bodyRead[i] # NoRead
         /\ (bodyRead[i][1].ok /\ JSONparse(bodyRead[i][1].text).ok)
              => /\ outcome[i].state = "fulfilled"
                 /\ outcome[i].value = JSONparse(bodyRead[i][1].text).v
         /\ bodyRead[i][1] = BodyText(B_JSON)
              => outcome[i].value =
                   JsObj(<< JsMem(<< "t","o","p" >>,
                                  JsArr(<< JsNum(2), JsNum(1) >>)) >>)
         /\ outcome[i].state # "fulfilled"
              => (~bodyRead[i][1].ok \/ bodyRead[i][1].text \in { B_MESSAGE, B_EMPTY })

\* A submitScore answered 200 with the body {"top":[2,1]} has resolved.
C3_Witness ==
  \E i \in Calls :
    /\ op[i] = "submitScore"
    /\ pc[i] = "done"
    /\ net[i].status = 200
    /\ bodyRead[i] = << BodyText(B_JSON) >>
    /\ outcome[i].state = "fulfilled"

\* C4: on a non-success status submitScore never resolves; it fails, with
\* the body text as the error message when the text is not empty and with
\* "Failed to submit score" when it is empty.
C4_SubmitScoreFailure ==
  \A i \in Calls :
    (op[i] = "submitScore" /\ net[i].state = "response"
       /\ net[i].status \notin 200..299)
      => /\ outcome[i].state # "fulfilled"
         /\ pc[i] = "done"
              => /\ outcome[i].state = "rejected"
                 /\ (bodyRead[i][1].ok /\ bodyRead[i][1].text # << >>)
                      => /\ outcome[i].error.name = "Error"
                         /\ outcome[i].error.message = bodyRead[i][1].text
                 /\ (bodyRead[i][1].ok /\ bodyRead[i][1].text = << >>)
                      => /\ outcome[i].error.name = "Error"
                         /\ TextToString(outcome[i].error.message)
                              = "Failed to submit score"

\* A submitScore answered 404 with the body "invalid score" has failed with
\* that message.
C4_Witness ==
  \E i \in Calls :
    /\ op[i] = "submitScore"
    /\ pc[i] = "done"
    /\ net[i].status = 404
    /\ bodyRead[i] = << BodyText(B_MESSAGE) >>
    /\ TextToString(outcome[i].error.message) = "invalid score"

\* C5: on a non-success status, 4xx or 5xx, fetchLeaderboard fails with the
\* message "Failed to fetch leaderboard" and never reads the response body.
C5_FetchLeaderboardFailure ==
  \A i \in Calls :
    (op[i] = "fetchLeaderboard" /\ net[i].state = "response"
       /\ net[i].status \notin 200..299)
      => /\ ~res[i].bodyUsed
         /\ bodyRead[i] = NoRead
         /\ pc[i] \in { "fetching", "done" }
         /\ pc[i] = "done"
              => /\ outcome[i].state = "rejected"
                 /\ outcome[i].error.name = "Error"
                 /\ TextToString(outcome[i].error.message)
                      = "Failed to fetch leaderboard"

\* A fetchLeaderboard answered 500 has failed.
C5_Witness ==
  \E i \in Calls :
    /\ op[i] = "fetchLeaderboard"
    /\ pc[i] = "done"
    /\ net[i].status = 500
    /\ outcome[i].state = "rejected"

\* C6: when the transport fails the request, the operation fails with that
\* same failure, not with an error of the module, and it issues no further
\* request.
C6_TransportFailurePropagates ==
  \A i \in Calls :
    /\ Len(sent[i]) <= 1
    /\ net[i].state = "failure" =>
         /\ Len(sent[i]) = 1
         /\ pc[i] \in { "fetching", "done" }
         /\ ~res[i].bodyUsed
         /\ pc[i] = "done"
              => /\ outcome[i].state = "rejected"
                 /\ outcome[i].error = net[i].error
                 /\ outcome[i].error.name = "TypeError"
                 /\ TextToString(outcome[i].error.message) = "Failed to fetch"

\* A submitScore has failed with the transport's failure.
C6_Witness ==
  \E i \in Calls :
    /\ op[i] = "submitScore"
    /\ pc[i] = "done"
    /\ net[i].state = "failure"
    /\ outcome[i].error = ERR_NETWORK

\* C7: with invocations running concurrently, in any interleaving, the
\* request and the outcome of each invocation are those it has when run
\* alone, a function of its own arguments and of the answer to its own
\* request; and a step changes the state of one invocation at most.
C7_InvocationsIndependent ==
  /\ [](\A i \in Calls :
          /\ op[i] = "fetchLeaderboard"
               => sent[i] = << LeaderboardRequest(LimitOf(args[i].limit)) >>
          /\ op[i] = "submitScore"
               => sent[i] = << ScoreRequest(args[i].entry, LimitOf(args[i].limit)) >>
          /\ pc[i] # "done" => outcome[i] = Pending
          /\ pc[i] = "done" =>
               outcome[i] =
                 IF net[i].state = "failure" THEN Rejected(net[i].error)
                 ELSE IF net[i].status \in 200..299 THEN JsonOf(bodyRead[i][1])
                 ELSE IF op[i] = "fetchLeaderboard"
                      THEN Rejected(NewError(MSG_FETCH_FAILED))
                 ELSE IF ~bodyRead[i][1].ok THEN Rejected(ERR_BODY_STREAM)
                 ELSE IF bodyRead[i][1].text = << >>
                      THEN Rejected(NewError(MSG_SUBMIT_FAILED))
                 ELSE Rejected(NewError(bodyRead[i][1].text)))
  /\ [][\A i, j \in Calls :
          (i # j /\ << pc[i], op[i], args[i], sent[i], net[i], res[i], bodyRead[i],
                       outcome[i] >>
                    # << pc[i], op[i], args[i], sent[i], net[i], res[i], bodyRead[i],
                         outcome[i] >>')
            => << pc[j], op[j], args[j], sent[j], net[j], res[j], bodyRead[j],
                  outcome[j] >>
               = << pc[j], op[j], args[j], sent[j], net[j], res[j], bodyRead[j],
                    outcome[j] >>']_vars

\* Two invocations of submitScore are in flight together: the second has
\* failed with the text of its own body, the first has read another body
\* and has not ended yet.
C7_Witness ==
  /\ op[1] = "submitScore" /\ op[2] = "submitScore"
  /\ pc[1] = "message" /\ pc[2] = "done"
  /\ bodyRead[1] = << BodyText(B_EMPTY) >>
  /\ bodyRead[2] = << BodyText(B_MESSAGE) >>
  /\ outcome[2].error.message = B_MESSAGE

\* C8: an invocation ends only after the transport has answered its request
\* (and, when it reads the body, after the read has settled); while the
\* request stays unanswered the invocation stays as it is; and when the
\* transport answers every request, every invocation ends.
C8_CompletionFollowsTransport ==
  /\ [](\A i \in Calls :
          /\ pc[i] = "done" => net[i].state \in { "response", "failure" }
          /\ (pc[i] = "done" /\ res[i].bodyUsed) => bodyRead[i] # NoRead
          /\ net[i].state = "pending" => (pc[i] = "fetching" /\ outcome[i] = Pending))
  /\ [][\A i \in Calls :
          (net[i].state = "pending" /\ net'[i].state = "pending")
            => (pc'[i] = pc[i] /\ outcome'[i] = outcome[i])]_vars
  /\ \A i \in 1..MaxConcurrent : (pc[i] # "idle") ~> (pc[i] = "done")

\* One invocation has ended on an answer while another still waits for the
\* transport.
C8_Witness ==
  \E i, j \in Calls :
    /\ pc[i] = "done" /\ net[i].state = "response"
    /\ pc[j] = "fetching" /\ net[j].state = "pending"

\* C9 as stated: the base is the configured value when one is set, the
\* default when it is unset; it never changes after the load and every
\* request targets it.
C9_Original ==
  /\ [][(~loaded /\ loaded')
          => API_BASE' = IF env = UNSET THEN "http://localhost:8000" ELSE env[1]]_vars
  /\ [][loaded => API_BASE' = API_BASE]_vars
  /\ [](\A i \in Calls : \A k \in 1..Len(sent[i]) :
          sent[i][k].url \in
            { API_BASE \o "/leaderboard?limit=" \o ToString(LimitOf(args[i].limit)),
              API_BASE \o "/score?limit=" \o ToString(LimitOf(args[i].limit)) })

\* C9, amended: the base is resolved once, at the load: the configured value
\* when one is set and is not the empty string, http://localhost:8000 when
\* it is unset or empty; it never changes after the load, and every request
\* of every invocation targets it, whatever the configuration has become.
C9_BaseFixedAtLoad ==
  /\ [][(~loaded /\ loaded')
          => API_BASE' = IF env = UNSET \/ env = << "" >>
                         THEN "http://localhost:8000" ELSE env[1]]_vars
  /\ [][loaded => (loaded' /\ API_BASE' = API_BASE)]_vars
  /\ [](\A i \in Calls : \A k \in 1..Len(sent[i]) :
          sent[i][k].url \in
            { API_BASE \o "/leaderboard?limit=" \o ToString(LimitOf(args[i].limit)),
              API_BASE \o "/score?limit=" \o ToString(LimitOf(args[i].limit)) })

\* A request went to the default base, fixed at the load, while the
\* configuration names another one.
C9_Witness ==
  \E i \in Calls :
    /\ env = << CONFIGURED_BASE >>
    /\ API_BASE = "http://localhost:8000"
    /\ pc[i] = "fetching"
    /\ sent[i][1].url = "http://localhost:8000/leaderboard?limit=10"

\* C10: reading the body can fail, and that failure is the outcome.  On a
\* success status with a body that is not JSON text both operations fail
\* with the parser's error, and with a body that cannot be read with the
\* read's error; on a non-success status with a body that cannot be read
\* submitScore fails with the read's error.  None of these is the error
\* "Failed to fetch leaderboard" or "Failed to submit score", and none
\* resolves.
C10_BodyReadFailureIsOutcome ==
  \A i \in Calls :
    (pc[i] = "done" /\ net[i].state = "response" /\ bodyRead[i] # NoRead)
      => /\ (net[i].status \in 200..299 /\ bodyRead[i][1].ok
               /\ bodyRead[i][1].text \in { B_MESSAGE, B_EMPTY })
              => /\ outcome[i].state = "rejected"
                 /\ outcome[i].error.name = "SyntaxError"
         /\ ~bodyRead[i][1].ok
              => /\ outcome[i].state = "rejected"
                 /\ outcome[i].error.name = "TypeError"
                 /\ TextToString(outcome[i].error.message) = "body error"
         /\ outcome[i].error.name \in { "SyntaxError", "TypeError" }
              => TextToString(outcome[i].error.message)
                   \notin { "Failed to fetch leaderboard", "Failed to submit score" }

\* A submitScore answered 404 whose body could not be read has failed with
\* the read's error.
C10_Witness ==
  \E i \in Calls :
    /\ op[i] = "submitScore"
    /\ pc[i] = "done"
    /\ net[i].status = 404
    /\ bodyRead[i] = << BodyFailure >>
    /\ outcome[i] = Rejected(ERR_BODY_STREAM)

====
